---- MODULE Spec2Model ----
(***************************************************************************)
(* Model of the invoice renderer in api.py: the POST /generate-invoice     *)
(* handler and the helpers it calls.  Text is a sequence of one-character  *)
(* strings; a number is a sign, a whole part and hundredths.               *)
(***************************************************************************)
EXTENDS Integers, Sequences, FiniteSets, TLC

VARIABLES
    pc,            \* the statement of generate_invoice about to run
    req,           \* the request body
    template,      \* shape of the template file on disk
    doc,           \* the Document being rendered
    replacements,  \* the replacement map, in insertion order
    files,         \* the temporary files: name -> content
    locals,        \* names bound in add_paid_stamp_and_signature's frame
    fetched,       \* what the remote host answered to each fetch, in order
    exc,           \* the statement that raised, or "none"
    responses,     \* the responses sent for the request
    trace,         \* the pipeline stages completed, in order
    fc             \* format_currency applied on its own: input and result

vars == <<pc, req, template, doc, replacements, files, locals, fetched, exc,
          responses, trace, fc>>

(***************************** bounds **************************************)
\* most line items in a request
MaxItems == 2
\* most sample rows below the style-template row of the items table
MaxSample == 1
\* most rows of the financial table of a template
MaxFinRows == 4
\* most digits of the whole part of a currency amount
MaxDigits == 7

(***************************** text ****************************************)
\* '{{LATE FEE:}}'
LateFeeToken == <<"{","{","L","A","T","E"," ","F","E","E",":","}","}">>
\* 'LATE FEE', the value of the token and the marker style_financial_table looks for
LateFeeMarker == <<"L","A","T","E"," ","F","E","E">>
\* '[latefee]'
LateFeeBracket == <<"[","l","a","t","e","f","e","e","]">>
\* 'd95132'
LateFeeColor == "d95132"
\* index (0-based, as in the code) of the financial-table row holding the late fee
LateFeeRow == 3

\* key in text
Contains(text, key) ==
    \E i \in 1..(Len(text) - Len(key) + 1) : SubSeq(text, i, i + Len(key) - 1) = key

\* text.replace(key, value) for a non-empty key: left to right, non-overlapping
RECURSIVE StrReplace(_, _, _)
StrReplace(text, key, value) ==
    IF Len(text) < Len(key) THEN text
    ELSE IF SubSeq(text, 1, Len(key)) = key
         THEN value \o StrReplace(SubSeq(text, Len(key) + 1, Len(text)), key, value)
         ELSE <<text[1]>> \o StrReplace(Tail(text), key, value)

(***************************** numbers *************************************)
\* a number with two decimals: neg, whole, frac (hundredths)
Num(n, w, f) == [neg |-> n, whole |-> w, frac |-> f]

IsZero(a) == a.whole = 0 /\ a.frac = 0
\* amount == int(amount)
IsWhole(a) == a.frac = 0

DigitChar(d) == <<"0","1","2","3","4","5","6","7","8","9">>[d + 1]

\* decimal digits of a natural number, most significant first
RECURSIVE NatStr(_)
NatStr(n) == IF n < 10 THEN <<DigitChar(n)>>
             ELSE NatStr(n \div 10) \o <<DigitChar(n % 10)>>

\* the ',' option of Python's format: a comma before every group of three digits
\* counted from the right
RECURSIVE Grouped(_)
Grouped(ds) == IF Len(ds) <= 3 THEN ds
               ELSE Grouped(SubSeq(ds, 1, Len(ds) - 3)) \o <<",">>
                    \o SubSeq(ds, Len(ds) - 2, Len(ds))

Sign(a) == IF a.neg THEN <<"-">> ELSE <<>>

TwoDecimals_OneDigit(f) == NatStr(f)
\* the '.2f' part: always two digits
TwoDecimals(f) == <<DigitChar(f \div 10), DigitChar(f % 10)>>

RpPrefix == <<"R","p"," ">>

format_currency(amount) ==
    IF IsZero(amount) THEN <<>>
    ELSE IF IsWhole(amount)
         THEN RpPrefix \o Sign(amount) \o Grouped(NatStr(amount.whole))
         ELSE RpPrefix \o Sign(amount) \o Grouped(NatStr(amount.whole))
              \o <<".">> \o TwoDecimals(amount.frac)

\* str(float) of a non-whole number with two decimals: trailing zero dropped
FloatStr(q) ==
    Sign(q) \o NatStr(q.whole) \o <<".">>
    \o (IF q.frac % 10 = 0 THEN <<DigitChar(q.frac \div 10)>> ELSE TwoDecimals(q.frac))

\* lines 91-95: the quantity cell
quantity_text(q) == IF IsWhole(q) THEN Sign(q) \o NatStr(q.whole) ELSE FloatStr(q)

(***************************** ordered dict ********************************)
\* a dict is a sequence of entries [k, v] with distinct keys, in insertion order
Entry(key, value) == [k |-> key, v |-> value]

HasKey(d, key) == \E i \in 1..Len(d) : d[i].k = key

\* d[key] = value: an existing key keeps its position, a new key goes last
DictSet(d, key, value) ==
    IF HasKey(d, key)
    THEN [i \in 1..Len(d) |-> IF d[i].k = key THEN Entry(key, value) ELSE d[i]]
    ELSE Append(d, Entry(key, value))

\* {**d, **e}
RECURSIVE DictMerge(_, _)
DictMerge(d, e) ==
    IF e = <<>> THEN d ELSE DictMerge(DictSet(d, Head(e).k, Head(e).v), Tail(e))

\* d[key]
DictGet(d, key) == d[CHOOSE i \in 1..Len(d) : d[i].k = key].v

(***************************** document ************************************)
Paragraph(t, f, pic) == [text |-> t, font |-> f, picture |-> pic]

Cell(t) == [text |-> t, color |-> "default", fill |-> "template",
            border |-> "template", align |-> "template", font |-> "template"]

Row(kind, cells) == [kind |-> kind, cells |-> cells]

EmptyDoc == [paragraphs |-> <<>>, tables |-> <<>>]

\* the shape of the template file on disk
Shape(nt, ir, fr, label) ==
    [nTables |-> nt, itemsRows |-> ir, finRows |-> fr, lateLabel |-> label]

NoTemplate == Shape(0, 0, 0, <<>>)

HeaderRow == Row("header", <<Cell(<<"I","t","e","m">>), Cell(<<"P","r","i","c","e">>),
                             Cell(<<"Q","t","y">>), Cell(<<"T","o","t","a","l">>)>>)
StyleTemplateRow == Row("template", <<Cell(<<>>), Cell(<<>>), Cell(<<>>), Cell(<<>>)>>)
SampleRow == Row("sample", <<Cell(<<"s">>), Cell(<<"1">>), Cell(<<"1">>), Cell(<<"1">>)>>)

TemplateItemsRow(i) == IF i = 1 THEN HeaderRow
                       ELSE IF i = 2 THEN StyleTemplateRow ELSE SampleRow

OtherLabel == <<"T","A","X">>

TemplateFinRow(i, label) ==
    Row("fin", <<Cell(IF i = LateFeeRow + 1 THEN label ELSE OtherLabel), Cell(<<"0">>)>>)

TemplateParagraphs ==
    << Paragraph(<<"I","N","V","O","I","C","E">>, "template", "none"),
       Paragraph(<<"(">> \o LateFeeToken \o <<")">>, "template", "none") >>

\* Document('Invoice_Template_MarketixLab.docx') for a file of the given shape
LoadedDocument(shape) ==
    [paragraphs |-> TemplateParagraphs,
     tables |-> [t \in 1..shape.nTables |->
                   IF t = 1
                   THEN [i \in 1..shape.itemsRows |-> TemplateItemsRow(i)]
                   ELSE [i \in 1..shape.finRows |-> TemplateFinRow(i, shape.lateLabel)]]]

LateLabels == {LateFeeToken, OtherLabel}

\* the template files the handler may find on disk
Templates ==
    {Shape(0, 0, 0, <<>>)}
    \cup {Shape(1, ir, 0, <<>>) : ir \in 0..(2 + MaxSample)}
    \cup {Shape(2, ir, fr, <<>>) : ir \in 0..(2 + MaxSample), fr \in 2..LateFeeRow}
    \cup {Shape(2, ir, fr, l) : ir \in 0..(2 + MaxSample),
                                fr \in (LateFeeRow + 1)..MaxFinRows, l \in LateLabels}

(***************************** request *************************************)
LineItem(d, up, q, t) == [description |-> d, unit_price |-> up, quantity |-> q, total |-> t]

DesignWork == LineItem(<<"D","e","s","i","g","n"," ","w","o","r","k">>,
                       Num(FALSE, 500000, 0), Num(FALSE, 2, 0), Num(FALSE, 1000000, 0))
Hosting == LineItem(<<"H","o","s","t","i","n","g">>,
                    Num(FALSE, 1000, 50), Num(FALSE, 1, 50), Num(FALSE, 0, 0))
\* the i-th line item a caller sends
CatalogueItem(i) == IF i % 2 = 1 THEN DesignWork ELSE Hosting

ItemLists == {[i \in 1..n |-> CatalogueItem(i)] : n \in 0..MaxItems}

\* '{{LATE', a caller token that is a prefix of the late-fee token
LateFeePrefix == SubSeq(LateFeeToken, 1, 6)

\* the token maps a caller sends as client_info, invoice_details and financials
ClientInfos == {<<>>, <<Entry(LateFeePrefix, <<"x">>)>>, <<Entry(LateFeeToken, <<"y">>)>>}
InvoiceDetails == {<<>>, <<Entry(LateFeeToken, <<"y">>)>>}
Financials == {<<>>, <<Entry(LateFeePrefix, <<"z">>)>>}

\* 'format' of the request; anything but 'pdf' is answered with the docx
Formats == {"docx", "pdf", "odt"}

Request(ci, id, fin, its, late, paid, fmt) ==
    [client_info |-> ci, invoice_details |-> id, financials |-> fin, items |-> its,
     apply_late_fee |-> late, mark_as_paid |-> paid, format |-> fmt]

NoRequest == Request(<<>>, <<>>, <<>>, <<>>, FALSE, FALSE, "docx")

Requests ==
    {Request(ci, id, fin, its, late, paid, fmt) :
        ci \in ClientInfos, id \in InvoiceDetails, fin \in Financials,
        its \in ItemLists, late \in BOOLEAN, paid \in BOOLEAN, fmt \in Formats}

(***************************** replace_placeholders ************************)
\* the loop over replacements.items() on one text: [text, hit], hit when some key
\* was found and the text was assigned
RECURSIVE SubstituteText(_, _, _)
SubstituteText(text, hit, d) ==
    IF d = <<>> THEN [text |-> text, hit |-> hit]
    ELSE IF Contains(text, Head(d).k)
         THEN SubstituteText(StrReplace(text, Head(d).k, Head(d).v), TRUE, Tail(d))
         ELSE SubstituteText(text, hit, Tail(d))

\* assigning paragraph.text leaves one run without formatting of its own
SubstituteParagraph(p, d) ==
    LET r == SubstituteText(p.text, FALSE, d)
    IN  IF r.hit THEN [p EXCEPT !.text = r.text, !.font = "unset"] ELSE p

SubstituteCell(c, d) ==
    LET r == SubstituteText(c.text, FALSE, d)
    IN  IF r.hit THEN [c EXCEPT !.text = r.text, !.font = "unset"] ELSE c

\* for row in table.rows: for cell in row.cells
SubstituteTable(table, d) ==
    [i \in 1..Len(table) |->
        [table[i] EXCEPT !.cells =
            [j \in 1..Len(table[i].cells) |-> SubstituteCell(table[i].cells[j], d)]]]

replace_placeholders(d, repl) ==
    [paragraphs |-> [i \in 1..Len(d.paragraphs) |-> SubstituteParagraph(d.paragraphs[i], repl)],
     tables |-> [t \in 1..Len(d.tables) |-> SubstituteTable(d.tables[t], repl)]]

\* lines 271-276
BuildReplacements(r) ==
    LET merged == DictMerge(DictMerge(r.client_info, r.invoice_details), r.financials)
    IN  IF r.apply_late_fee
        THEN DictSet(merged, LateFeeToken, LateFeeMarker)
        ELSE DictSet(DictSet(merged, LateFeeToken, <<>>), LateFeeBracket, <<>>)

(***************************** update_items_table **************************)
set_white_borders(c, sz) == [c EXCEPT !.border = sz]

set_cell_font(c) == [c EXCEPT !.font = "Courier New"]

apply_cell_style(c) ==
    set_cell_font(set_white_borders([c EXCEPT !.fill = "ddefd5"], "white6"))

Alignments == <<"left", "right", "center", "right">>

\* lines 88-102: the row added for one item
ItemRow(item) ==
    LET texts == << item.description, format_currency(item.unit_price),
                    quantity_text(item.quantity), format_currency(item.total) >>
    IN  Row("item", [j \in 1..4 |->
                        [apply_cell_style(Cell(texts[j])) EXCEPT !.align = Alignments[j]]])

\* doc.tables[0] or items_table.rows[1] raises IndexError
ItemsTableFault(d) == IF Len(d.tables) < 1 THEN TRUE ELSE Len(d.tables[1]) < 2

\* line 103 without the removal: the style-template row stays
RemovePlaceholderRow_Kept(rows) == rows
\* line 103: placeholder_row is the row that was at index 1
RemovePlaceholderRow(rows) == <<rows[1]>> \o SubSeq(rows, 3, Len(rows))

\* lines 84-85: while len(rows) > 2: remove rows[2]
PurgeSampleRows(rows) == IF Len(rows) > 2 THEN SubSeq(rows, 1, 2) ELSE rows

\* lines 81-83
BorderRows(table) ==
    [i \in 1..Len(table) |->
        [table[i] EXCEPT !.cells =
            [j \in 1..Len(table[i].cells) |-> set_white_borders(table[i].cells[j], "white6")]]]

update_items_table(d, items) ==
    LET bordered == BorderRows(d.tables[1])
        purged == PurgeSampleRows(bordered)
        added == purged \o [i \in 1..Len(items) |-> ItemRow(items[i])]
    IN  [d EXCEPT !.tables[1] = RemovePlaceholderRow(added)]

(***************************** style_financial_table ***********************)
\* doc.tables[1] or financial_table.rows[3] raises IndexError
FinancialTableFault(d, apply_late_fee) ==
    IF Len(d.tables) < 2 THEN TRUE
    ELSE apply_late_fee /\ Len(d.tables[2]) < LateFeeRow + 1

\* lines 117-123: the cell is emptied and its old text added as one coloured run
RecolorLateFee(c) ==
    LET original_text == c.text
        cleared == [c EXCEPT !.text = <<>>]
    IN  [cleared EXCEPT !.text = cleared.text \o original_text,
                        !.color = LateFeeColor, !.font = "Courier New"]

\* lines 108-113
StyleFinancialRows(table) ==
    [i \in 1..Len(table) |->
        [table[i] EXCEPT !.cells =
            [j \in 1..Len(table[i].cells) |->
                LET c == set_cell_font(set_white_borders(table[i].cells[j], "white4"))
                IN  IF j = 2 THEN [c EXCEPT !.align = "right"] ELSE c]]]

style_financial_table(d, apply_late_fee) ==
    LET aligned == StyleFinancialRows(d.tables[2])
        late_fee_cell == aligned[LateFeeRow + 1].cells[1]
    IN  [d EXCEPT !.tables[2] =
            IF apply_late_fee /\ Contains(late_fee_cell.text, LateFeeMarker)
            THEN [aligned EXCEPT ![LateFeeRow + 1].cells[1] = RecolorLateFee(late_fee_cell)]
            ELSE aligned]

(***************************** overlays and font pass **********************)
\* lines 158-189 and 192-223: a new paragraph whose run holds the anchored picture
EmbedPicture(d, pic) ==
    [d EXCEPT !.paragraphs = Append(@, Paragraph(<<>>, "unset", pic))]

Pictures(d) == {d.paragraphs[i].picture : i \in 1..Len(d.paragraphs)} \ {"none"}

\* lines 288-291
FontPass(d) ==
    [d EXCEPT !.paragraphs = [i \in 1..Len(@) |-> [@[i] EXCEPT !.font = "Courier New"]]]

(***************************** files and responses ************************)
FileNames == {"stamp_tmp", "signature_tmp", "temp_docx", "temp_pdf"}

Content(fmt, body) == [fmt |-> fmt, body |-> body]
Absent == Content("absent", EmptyDoc)

Exists(name) == files[name].fmt # "absent"
ExistingFiles == {n \in FileNames : Exists(n)}

\* os.remove of every listed file
Removed(fs, names) == [n \in FileNames |-> IF n \in names THEN Absent ELSE fs[n]]

\* send_file(...)
FileResponse(mimetype, body) ==
    [kind |-> "file", status |-> 200, mimetype |-> mimetype, body |-> body, error |-> "none"]

\* an except clause that answers with what was rendered so far
ErrorResponse_PartialFile(e) ==
    [kind |-> "file", status |-> 200, mimetype |-> "docx", body |-> doc, error |-> e]
\* line 329: jsonify({"error": str(e)}), 500
ErrorResponse(e) ==
    [kind |-> "error", status |-> 500, mimetype |-> "json", body |-> EmptyDoc, error |-> e]

(***************************** control flow ********************************)
\* the test of line 284 inverted
OverlayBranch_Inverted(mark_as_paid) == IF mark_as_paid THEN "font" ELSE "fetch_stamp"
\* line 284
OverlayBranch(mark_as_paid) == IF mark_as_paid THEN "fetch_stamp" ELSE "font"

\* line 294
OutputBranch(format) == IF format = "pdf" THEN "mk_docx" ELSE "save_mem"

\* an except clause that returns the document instead of raising
OverlayExceptNext_Swallow == "font"
\* line 234: the failure is raised again, to generate_invoice's except clause
OverlayExceptNext == "except"

\* the except clause of lines 229-233 without the removals
OverlayExceptRemoves_Nothing(fs, ls) == {}
\* lines 230-233: the temp files bound in the frame that exist
OverlayExceptRemoves(fs, ls) == {n \in ls : fs[n].fmt # "absent"}

FetchOutcomes == {"ok", "network", "status", "undecodable"}

\* lines 130-137: the image data is returned only for a 200 answer that verifies
fetch_image(outcome) == outcome = "ok"

Raise(step) == pc' = "except" /\ exc' = step

(***************************** the handler *********************************)
NoFc == [amount |-> Num(FALSE, 0, 0), out |-> <<>>, done |-> FALSE]

Init ==
    /\ pc = "idle"
    /\ req = NoRequest
    /\ template = NoTemplate
    /\ doc = EmptyDoc
    /\ replacements = <<>>
    /\ files = [n \in FileNames |-> Absent]
    /\ locals = {}
    /\ fetched = <<>>
    /\ exc = "none"
    /\ responses = <<>>
    /\ trace = <<>>
    /\ fc = NoFc

\* a POST /generate-invoice arrives
Receive ==
    /\ pc = "idle"
    /\ \E r \in Requests : req' = r
    /\ pc' = "parse"
    /\ UNCHANGED <<template, doc, replacements, files, locals, fetched, exc,
                   responses, trace, fc>>

\* lines 256-265: request.json and the data.get calls; a body that is no JSON
\* object raises
ParseRequest ==
    /\ pc = "parse"
    /\ \E ok \in BOOLEAN :
          IF ok THEN pc' = "load" /\ exc' = exc ELSE Raise("parse")
    /\ UNCHANGED <<req, template, doc, replacements, files, locals, fetched,
                   responses, trace, fc>>

\* line 268
LoadTemplate ==
    /\ pc = "load"
    /\ \E shape \in Templates :
          /\ template' = shape
          /\ doc' = LoadedDocument(shape)
    /\ pc' = "build_map"
    /\ trace' = Append(trace, "Loaded")
    /\ UNCHANGED <<req, replacements, files, locals, fetched, exc, responses, fc>>

\* line 268 when the template file cannot be opened
LoadTemplateFails ==
    /\ pc = "load"
    /\ Raise("load")
    /\ UNCHANGED <<req, template, doc, replacements, files, locals, fetched,
                   responses, trace, fc>>

\* lines 271-276
PrepareReplacements ==
    /\ pc = "build_map"
    /\ replacements' = BuildReplacements(req)
    /\ pc' = "substitute"
    /\ UNCHANGED <<req, template, doc, files, locals, fetched, exc, responses,
                   trace, fc>>

\* line 279
Substitute ==
    /\ pc = "substitute"
    /\ doc' = replace_placeholders(doc, replacements)
    /\ pc' = "rebuild"
    /\ trace' = Append(trace, "Substituted")
    /\ UNCHANGED <<req, template, replacements, files, locals, fetched, exc,
                   responses, fc>>

\* line 280
RebuildItems ==
    /\ pc = "rebuild"
    /\ ~ItemsTableFault(doc)
    /\ doc' = update_items_table(doc, req.items)
    /\ pc' = "style"
    /\ trace' = Append(trace, "TableBuilt")
    /\ UNCHANGED <<req, template, replacements, files, locals, fetched, exc,
                   responses, fc>>

\* line 280 raising IndexError at line 80 or 86
RebuildItemsFails ==
    /\ pc = "rebuild"
    /\ ItemsTableFault(doc)
    /\ Raise("rebuild")
    /\ UNCHANGED <<req, template, doc, replacements, files, locals, fetched,
                   responses, trace, fc>>

\* line 281
StyleFinancial ==
    /\ pc = "style"
    /\ ~FinancialTableFault(doc, req.apply_late_fee)
    /\ doc' = style_financial_table(doc, req.apply_late_fee)
    /\ pc' = "check_paid"
    /\ trace' = Append(trace, "Styled")
    /\ UNCHANGED <<req, template, replacements, files, locals, fetched, exc,
                   responses, fc>>

\* line 281 raising IndexError at line 107 or 115
StyleFinancialFails ==
    /\ pc = "style"
    /\ FinancialTableFault(doc, req.apply_late_fee)
    /\ Raise("style")
    /\ UNCHANGED <<req, template, doc, replacements, files, locals, fetched,
                   responses, trace, fc>>

\* line 284
CheckPaid ==
    /\ pc = "check_paid"
    /\ pc' = OverlayBranch(req.mark_as_paid)
    /\ trace' = IF pc' = "font" THEN Append(trace, "Unstamped") ELSE trace
    /\ UNCHANGED <<req, template, doc, replacements, files, locals, fetched, exc,
                   responses, fc>>

(***************************** add_paid_stamp_and_signature ****************)
\* an exception inside the try of lines 142-228
OverlayRaise(step) == pc' = "ovl_except" /\ exc' = step

Fetch(step, next) ==
    /\ pc = step
    /\ \E outcome \in FetchOutcomes :
          /\ fetched' = Append(fetched, outcome)
          /\ IF fetch_image(outcome) THEN pc' = next /\ exc' = exc
                                     ELSE OverlayRaise(step)
    /\ UNCHANGED <<req, template, doc, replacements, files, locals, responses,
                   trace, fc>>

\* line 143
FetchStamp == Fetch("fetch_stamp", "fetch_signature")
\* line 144
FetchSignature == Fetch("fetch_signature", "mk_stamp_tmp")

\* tempfile.NamedTemporaryFile(delete=False): the file exists once the name is bound
CreateTmp(step, name, next) ==
    /\ pc = step
    /\ \E ok \in BOOLEAN :
          IF ok
          THEN /\ files' = [files EXCEPT ![name] = Content("empty", EmptyDoc)]
               /\ locals' = locals \cup {name}
               /\ pc' = next /\ exc' = exc
          ELSE /\ OverlayRaise(step)
               /\ UNCHANGED <<files, locals>>
    /\ UNCHANGED <<req, template, doc, replacements, fetched, responses, trace, fc>>

\* line 146
CreateStampTmp == CreateTmp("mk_stamp_tmp", "stamp_tmp", "mk_signature_tmp")
\* line 147
CreateSignatureTmp == CreateTmp("mk_signature_tmp", "signature_tmp", "save_stamp")

\* Image.open(data); img.save(tmp.name, format="PNG"); tmp.close()
SaveImage(step, name, next) ==
    /\ pc = step
    /\ \E ok \in BOOLEAN :
          IF ok
          THEN /\ files' = [files EXCEPT ![name] = Content("png", EmptyDoc)]
               /\ pc' = next /\ exc' = exc
          ELSE /\ OverlayRaise(step)
               /\ UNCHANGED files
    /\ UNCHANGED <<req, template, doc, replacements, locals, fetched, responses,
                   trace, fc>>

\* lines 149-151
SaveStamp == SaveImage("save_stamp", "stamp_tmp", "save_signature")
\* lines 153-155
SaveSignature == SaveImage("save_signature", "signature_tmp", "embed_stamp")

\* add_paragraph, add_run, add_picture and the anchor rewrite; when add_picture or
\* the rewrite raises, the new paragraph is already in the document
Embed(step, pic, next) ==
    /\ pc = step
    /\ \E ok \in BOOLEAN :
          IF ok
          THEN /\ doc' = EmbedPicture(doc, pic)
               /\ pc' = next /\ exc' = exc
          ELSE /\ doc' = EmbedPicture(doc, "none")
               /\ OverlayRaise(step)
    /\ UNCHANGED <<req, template, replacements, files, locals, fetched, responses,
                   trace, fc>>

\* lines 158-189
EmbedStamp == Embed("embed_stamp", "stamp", "embed_signature")
\* lines 192-223
EmbedSignature == Embed("embed_signature", "signature", "rm_tmp")

\* lines 225-228
RemoveTmpAndReturn ==
    /\ pc = "rm_tmp"
    /\ files' = Removed(files, {"stamp_tmp", "signature_tmp"})
    /\ locals' = {}
    /\ pc' = "font"
    /\ trace' = Append(trace, "Stamped")
    /\ UNCHANGED <<req, template, doc, replacements, fetched, exc, responses, fc>>

\* lines 229-234
OverlayExcept ==
    /\ pc = "ovl_except"
    /\ files' = Removed(files, OverlayExceptRemoves(files, locals))
    /\ locals' = {}
    /\ pc' = OverlayExceptNext
    /\ UNCHANGED <<req, template, doc, replacements, fetched, exc, responses,
                   trace, fc>>

(***************************** font pass and output ************************)
\* lines 288-291
NormalizeFonts ==
    /\ pc = "font"
    /\ doc' = FontPass(doc)
    /\ pc' = "check_format"
    /\ trace' = Append(trace, "FontNormalized")
    /\ UNCHANGED <<req, template, replacements, files, locals, fetched, exc,
                   responses, fc>>

\* line 294
CheckFormat ==
    /\ pc = "check_format"
    /\ pc' = OutputBranch(req.format)
    /\ UNCHANGED <<req, template, doc, replacements, files, locals, fetched, exc,
                   responses, trace, fc>>

\* a step of the pdf branch that touches the temp files; it may raise
PdfStep(step, next, ok_files, stage) ==
    /\ pc = step
    /\ \E ok \in BOOLEAN :
          IF ok
          THEN /\ files' = ok_files
               /\ trace' = IF stage = "none" THEN trace ELSE Append(trace, stage)
               /\ pc' = next /\ exc' = exc
          ELSE /\ Raise(step)
               /\ UNCHANGED <<files, trace>>
    /\ UNCHANGED <<req, template, doc, replacements, locals, fetched, responses, fc>>

\* line 296
CreateTempDocx ==
    PdfStep("mk_docx", "save_docx",
            [files EXCEPT !["temp_docx"] = Content("empty", EmptyDoc)], "none")
\* lines 297-298
SaveTempDocx ==
    PdfStep("save_docx", "mk_pdf",
            [files EXCEPT !["temp_docx"] = Content("docx", doc)], "Serialized")
\* lines 301-302
CreateTempPdf ==
    PdfStep("mk_pdf", "convert",
            [files EXCEPT !["temp_pdf"] = Content("empty", EmptyDoc)], "none")
\* line 303: pandoc writes the pdf of the docx file's document
ConvertToPdf ==
    PdfStep("convert", "rm_docx",
            [files EXCEPT !["temp_pdf"] = Content("pdf", files["temp_docx"].body)],
            "Converted")

\* line 306
RemoveTempDocx ==
    /\ pc = "rm_docx"
    /\ files' = Removed(files, {"temp_docx"})
    /\ pc' = "send_pdf"
    /\ UNCHANGED <<req, template, doc, replacements, locals, fetched, exc,
                   responses, trace, fc>>

\* lines 309-314: the response streams the pdf file
SendPdf ==
    /\ pc = "send_pdf"
    /\ responses' = Append(responses,
                           FileResponse("application/pdf", files["temp_pdf"].body))
    /\ pc' = "done"
    /\ UNCHANGED <<req, template, doc, replacements, files, locals, fetched, exc,
                   trace, fc>>

\* lines 317-326
SendDocx ==
    /\ pc = "save_mem"
    /\ \E ok \in BOOLEAN :
          IF ok
          THEN /\ responses' = Append(responses, FileResponse("docx", doc))
               /\ trace' = Append(trace, "Serialized")
               /\ pc' = "done" /\ exc' = exc
          ELSE /\ Raise("save_mem")
               /\ UNCHANGED <<responses, trace>>
    /\ UNCHANGED <<req, template, doc, replacements, files, locals, fetched, fc>>

\* lines 328-329
ExceptHandler ==
    /\ pc = "except"
    /\ responses' = Append(responses, ErrorResponse(exc))
    /\ pc' = "done"
    /\ UNCHANGED <<req, template, doc, replacements, files, locals, fetched, exc,
                   trace, fc>>

Next ==
    \/ Receive \/ ParseRequest \/ LoadTemplate \/ LoadTemplateFails
    \/ PrepareReplacements \/ Substitute
    \/ RebuildItems \/ RebuildItemsFails
    \/ StyleFinancial \/ StyleFinancialFails
    \/ CheckPaid
    \/ FetchStamp \/ FetchSignature
    \/ CreateStampTmp \/ CreateSignatureTmp
    \/ SaveStamp \/ SaveSignature
    \/ EmbedStamp \/ EmbedSignature
    \/ RemoveTmpAndReturn \/ OverlayExcept
    \/ NormalizeFonts \/ CheckFormat
    \/ CreateTempDocx \/ SaveTempDocx \/ CreateTempPdf \/ ConvertToPdf
    \/ RemoveTempDocx \/ SendPdf \/ SendDocx
    \/ ExceptHandler

Spec == Init /\ [][Next]_vars

(***************************** format_currency on its own ******************)
DigitChoices == {0, 1, 9}

RECURSIVE DigitsValue(_)
DigitsValue(ds) == IF ds = <<>> THEN 0
                   ELSE 10 * DigitsValue(SubSeq(ds, 1, Len(ds) - 1)) + ds[Len(ds)]

Wholes == {DigitsValue(ds) : ds \in UNION {[1..n -> DigitChoices] : n \in 1..MaxDigits}}

Fracs == {0, 5, 50, 99}

Amounts == {Num(n, w, f) : n \in BOOLEAN, w \in Wholes, f \in Fracs}

InitCurrency ==
    /\ pc = "idle"
    /\ req = NoRequest
    /\ template = NoTemplate
    /\ doc = EmptyDoc
    /\ replacements = <<>>
    /\ files = [n \in FileNames |-> Absent]
    /\ locals = {}
    /\ fetched = <<>>
    /\ exc = "none"
    /\ responses = <<>>
    /\ trace = <<>>
    /\ fc \in {[amount |-> a, out |-> <<>>, done |-> FALSE] : a \in Amounts}

ApplyFormatCurrency ==
    /\ ~fc.done
    /\ fc' = [fc EXCEPT !.out = format_currency(fc.amount), !.done = TRUE]
    /\ UNCHANGED <<pc, req, template, doc, replacements, files, locals, fetched,
                   exc, responses, trace>>

NextCurrency == ApplyFormatCurrency

SpecCurrency == InitCurrency /\ [][NextCurrency]_vars

(***************************** properties **********************************)
Completed(stage) == \E i \in 1..Len(trace) : trace[i] = stage

IsFile(r) == r.kind = "file"

OverlayPcs == {"fetch_stamp", "fetch_signature", "mk_stamp_tmp", "mk_signature_tmp",
               "save_stamp", "save_signature", "embed_stamp", "embed_signature",
               "rm_tmp", "ovl_except"}

OverlaySteps == OverlayPcs \ {"rm_tmp", "ovl_except"}

ExpectedTrace(r) ==
    <<"Loaded", "Substituted", "TableBuilt", "Styled",
      IF r.mark_as_paid THEN "Stamped" ELSE "Unstamped",
      "FontNormalized", "Serialized">>
    \o (IF r.format = "pdf" THEN <<"Converted">> ELSE <<>>)

\* C1: a request answered with a file went through load, substitute, rebuild,
\* style, overlay exactly when mark_as_paid, font pass, serialize, and convert
\* exactly when the format is 'pdf', in that order; the font pass came after every
\* step that writes text, so every paragraph of the file, the overlay paragraphs
\* included, is in Courier New.
C1_PipelineOrder ==
    \A i \in 1..Len(responses) :
        IsFile(responses[i]) =>
            /\ trace = ExpectedTrace(req)
            /\ \A j \in 1..Len(responses[i].body.paragraphs) :
                   responses[i].body.paragraphs[j].font = "Courier New"
            /\ req.mark_as_paid <=> Pictures(responses[i].body) # {}
            /\ req.format = "pdf" <=> responses[i].mimetype = "application/pdf"

C1_Witness ==
    /\ pc = "done"
    /\ Len(responses) = 1 /\ IsFile(responses[1])
    /\ req.mark_as_paid /\ req.format = "pdf"

\* C2: no file response carries a document with exactly one of the two overlay
\* images, and a request whose overlay step failed (a fetch not answered with a
\* valid image, a temp file, a decode, an embedding) is answered with the error.
C2_OverlayAllOrNothing ==
    /\ \A i \in 1..Len(responses) :
           IsFile(responses[i]) =>
               Pictures(responses[i].body) \in {{}, {"stamp", "signature"}}
    /\ pc = "done" /\ ((\E i \in 1..Len(fetched) : fetched[i] # "ok") \/ exc \in OverlaySteps)
           => Len(responses) = 1 /\ responses[1].kind = "error"

C2_Witness ==
    /\ pc = "done"
    /\ req.mark_as_paid
    /\ fetched = <<"ok", "undecodable">>
    /\ responses[1].kind = "error"

\* C3: when the handler has exited, no temporary file is left on disk.
C3_AllTempFilesDeleted == pc = "done" => ExistingFiles = {}

\* C4: once update_items_table has run on an items table of a header row, a
\* style-template row and K >= 0 sample rows, the table is the header row followed
\* by one new row per item, in order: N + 1 rows, none of them the style-template
\* row or a sample row.
C4_ItemsTableRebuilt ==
    Completed("TableBuilt") /\ template.itemsRows >= 2 =>
        LET rows == doc.tables[1]
            N == Len(req.items)
        IN  /\ Len(rows) = N + 1
            /\ rows[1].kind = "header"
            /\ \A j \in 1..4 : rows[1].cells[j].text = HeaderRow.cells[j].text
            /\ \A i \in 1..N :
                   /\ rows[i + 1].kind = "item"
                   /\ rows[i + 1].cells[1].text = req.items[i].description
            /\ \A i \in 1..Len(rows) : rows[i].kind \notin {"template", "sample"}

C4_Witness ==
    /\ Completed("TableBuilt")
    /\ template.itemsRows >= 3
    /\ Len(req.items) >= 2
    /\ Len(doc.tables[1]) = Len(req.items) + 1

\* C5: a request gets no response before the handler ends and exactly one when it
\* ends; the handler always gets to its end; after a failure of any step the
\* response is the JSON error with status 500 carrying the failure, never a file.
C5_OneResponse ==
    /\ Len(responses) <= 1
    /\ pc = "done" <=> Len(responses) = 1
    /\ pc # "done" => ENABLED Next
    /\ pc = "done" =>
           IF exc # "none"
           THEN /\ responses[1].kind = "error" /\ responses[1].status = 500
                /\ responses[1].error = exc /\ responses[1].body = EmptyDoc
           ELSE IsFile(responses[1]) /\ responses[1].status = 200

C5_Witness ==
    /\ pc = "done"
    /\ exc = "convert"
    /\ responses = <<[kind |-> "error", status |-> 500, mimetype |-> "json",
                      body |-> EmptyDoc, error |-> "convert"]>>

ViolatesStructure(t) == t.nTables < 2 \/ t.itemsRows < 2 \/ t.finRows < LateFeeRow + 1

\* C6: a request rendered from a template with fewer than two tables, an items
\* table of fewer than 2 rows or a financial table of fewer than 4 rows is answered
\* with the error.
C6_BadTemplateFails ==
    pc = "done" /\ Completed("Loaded") /\ ViolatesStructure(template)
        => responses[1].kind = "error"

\* the entries ordered by decreasing key length
RECURSIVE InsertByLength(_, _)
InsertByLength(e, d) ==
    IF d = <<>> THEN <<e>>
    ELSE IF Len(e.k) > Len(Head(d).k) THEN <<e>> \o d
         ELSE <<Head(d)>> \o InsertByLength(e, Tail(d))

RECURSIVE LongestFirst(_)
LongestFirst(d) ==
    IF d = <<>> THEN <<>>
    ELSE InsertByLength(d[Len(d)], LongestFirst(SubSeq(d, 1, Len(d) - 1)))

\* C7: whatever the insertion order of the keys, the substituted document is the
\* one the rules give when applied longest key first, so an occurrence of a token
\* is never rewritten by the rule of a shorter token that is its prefix.
C7_LongestFirst ==
    pc = "rebuild" =>
        doc = replace_placeholders(LoadedDocument(template), LongestFirst(replacements))

LateFeeCell(d) == d.tables[2][LateFeeRow + 1].cells[1]

HasLateFeeCell == template.nTables = 2 /\ template.finRows >= LateFeeRow + 1

\* the text of the late-fee cell after substitution
SubstitutedLabel == SubstituteText(template.lateLabel, FALSE, replacements).text

\* C8, apply_late_fee = false: the late-fee cell is never recoloured
C8_NotRecoloredWhenOff ==
    ~req.apply_late_fee /\ HasLateFeeCell /\ Completed("Loaded")
        => LateFeeCell(doc).color = "default"

\* C8, apply_late_fee = true: with the marker in the substituted cell the cell keeps
\* its text and is coloured d95132; without it the cell is left as it is; styling
\* raises in neither case
C8_RecolorWhenOn ==
    req.apply_late_fee /\ HasLateFeeCell =>
        /\ exc # "style"
        /\ Completed("Styled") =>
              /\ LateFeeCell(doc).text = SubstitutedLabel
              /\ LateFeeCell(doc).color =
                     IF Contains(SubstitutedLabel, LateFeeMarker)
                     THEN "d95132" ELSE "default"

\* C8, apply_late_fee = false: the token '{{LATE FEE:}}' of the template is
\* substituted by the empty string, whatever the caller supplied for it
C8_TokenEmptiedWhenOff ==
    ~req.apply_late_fee /\ Completed("Substituted") =>
        /\ DictGet(replacements, LateFeeToken) = <<>>
        /\ doc.paragraphs[2].text = <<"(", ")">>
        /\ HasLateFeeCell /\ template.lateLabel = LateFeeToken
               => LateFeeCell(doc).text = <<>>

\* C8: the three cases together
C8_LateFee == C8_TokenEmptiedWhenOff /\ C8_NotRecoloredWhenOff /\ C8_RecolorWhenOn

\* C10: outside add_paid_stamp_and_signature (before the call, after it returned,
\* after it raised) neither decoded-image temp file exists.
C10_TmpImagesReleased ==
    pc \notin OverlayPcs => ~Exists("stamp_tmp") /\ ~Exists("signature_tmp")

C10_Witness ==
    /\ pc = "except"
    /\ exc = "embed_signature"
    /\ ExistingFiles = {}

Digits == {"0", "1", "2", "3", "4", "5", "6", "7", "8", "9"}

DigitValue(ch) == CHOOSE d \in 0..9 : DigitChar(d) = ch

\* the number a string of digits and commas denotes, read left to right
RECURSIVE ReadNumber(_, _)
ReadNumber(s, acc) ==
    IF s = <<>> THEN acc
    ELSE IF Head(s) = "," THEN ReadNumber(Tail(s), acc)
         ELSE ReadNumber(Tail(s), 10 * acc + DigitValue(Head(s)))

\* s is the thousands-grouped decimal numeral of n: digits, with a comma exactly at
\* every fourth place counted from the right, and no leading zero or comma
IsGroupedNumeral(s, n) ==
    /\ Len(s) >= 1
    /\ \A i \in 1..Len(s) :
           IF (Len(s) - i + 1) % 4 = 0 THEN s[i] = "," ELSE s[i] \in Digits
    /\ s[1] # ","
    /\ Len(s) > 1 => s[1] # "0"
    /\ ReadNumber(s, 0) = n

\* the text after 'Rp ' and the sign
Unsigned(a, s) ==
    IF a.neg THEN SubSeq(s, 5, Len(s)) ELSE SubSeq(s, 4, Len(s))

HasRpPrefix(a, s) ==
    /\ Len(s) >= 4
    /\ SubSeq(s, 1, 3) = <<"R", "p", " ">>
    /\ a.neg => s[4] = "-"

\* C9: format_currency(a) is '' when a = 0; 'Rp ' and the thousands-grouped whole
\* number when a is whole and not 0; 'Rp ' and the thousands-grouped whole part, a
\* point and exactly two decimals otherwise.  1000 gives 'Rp 1,000', 1000.5 gives
\* 'Rp 1,000.50'.
C9_FormatCurrency ==
    fc.done =>
        LET a == fc.amount
            s == fc.out
            u == Unsigned(a, s)
        IN  /\ IsZero(a) <=> s = <<>>
            /\ ~IsZero(a) /\ a.frac = 0 =>
                   HasRpPrefix(a, s) /\ IsGroupedNumeral(u, a.whole)
            /\ a.frac # 0 =>
                   /\ HasRpPrefix(a, s)
                   /\ Len(u) >= 4
                   /\ u[Len(u) - 2] = "."
                   /\ IsGroupedNumeral(SubSeq(u, 1, Len(u) - 3), a.whole)
                   /\ u[Len(u) - 1] \in Digits /\ u[Len(u)] \in Digits
                   /\ 10 * DigitValue(u[Len(u) - 1]) + DigitValue(u[Len(u)]) = a.frac
            /\ a = Num(FALSE, 1000, 0) => s = <<"R","p"," ","1",",","0","0","0">>
            /\ a = Num(FALSE, 1000, 50) =>
                   s = <<"R","p"," ","1",",","0","0","0",".","5","0">>

C9_Witness ==
    /\ fc.done
    /\ fc.amount = Num(FALSE, 1000, 50)
    /\ fc.out = <<"R","p"," ","1",",","0","0","0",".","5","0">>

====
